---- MODULE Spec2Model ----
(***************************************************************************)
(* Non-maximum suppression of chainercv                                    *)
(* (chainercv/links/utils/bbox/non_maximum_suppression.py).                *)
(*                                                                         *)
(* Arrays are functions on 0..n-1, as in the source.  A box is the tuple   *)
(* <<x_min, y_min, x_max, y_max>>: the source's b[0..3] are b[1..4] here.  *)
(* A 64-bit mask word is the set of its set bits.  Coordinates are small   *)
(* integers and thresholds are dyadic rationals <<num, den>>, for which    *)
(* the float32/float64 products, sums and the correctly rounded division   *)
(* compared with the threshold are exact.  Optional arguments (score,      *)
(* limit) are sets with no element (None) or one element.                  *)
(***************************************************************************)
EXTENDS Integers, Sequences, FiniteSets

\* Largest number of boxes R of a call.
MaxR == 3

\* Bits of a mask word and threads of a block.  The source has 64
\* (threadsPerBlock, threads_per_block); it is scaled down here so that a
\* call with MaxR boxes has more than one tile.
TILE == 2

\* Input domains.
BoxSet == { <<0, 0, 2, 2>>, <<0, 0, 1, 2>>, <<1, 0, 2, 1>> }
ThreshSet == { <<1, 2>>, <<1, 1>> }
ScoreSet == {1, 2}
LimitSet == {0, 1, 2}

\* The scenario of the documentation: three 10x10 boxes, two of them
\* overlapping, scores 0.1, 0.9, 0.5 (scaled by 10), threshold 0.5.
ExampleBbox == [k \in 0..2 |-> IF k = 0 THEN <<0, 0, 10, 10>>
                              ELSE IF k = 1 THEN <<1, 1, 11, 11>>
                              ELSE <<20, 20, 30, 30>>]
ExampleScore == [k \in 0..2 |-> IF k = 0 THEN 1 ELSE IF k = 1 THEN 9 ELSE 5]

VARIABLES
    bbox,        \* the boxes of the call, 0..R-1 -> box
    thresh,      \* <<num, den>>
    score,       \* {} or {0..S-1 -> score}
    argsort,     \* what score.argsort() returns for this score
    limit,       \* {} or {n}
    pc,          \* position in the run: cpu call, then gpu call
    i,           \* loop index of the sequential selector
    selec,       \* selec of the sequential selector, 0..S-1 -> BOOLEAN
    evaluated,   \* loop indices whose overlap test was computed
    cpu_ret,     \* [status, val] result of _non_maximum_suppression_cpu
    mask,        \* mask_host, flat array of n_bbox * col_blocks words
    selection,   \* [sel, n] returned by _nms_gpu_post
    gpu_ret,     \* [status, val] result of _non_maximum_suppression_gpu
    tpc,         \* kernel: position of each thread <<row, col, tid>>
    block_boxes, \* kernel: shared staging area of each block
    dev_mask,    \* kernel: mask_dev
    writes,      \* kernel: for each mask word, the threads that wrote it
    raceRead     \* kernel: a thread read a staging slot not yet written

vars == <<bbox, thresh, score, argsort, limit, pc, i, selec, evaluated,
          cpu_ret, mask, selection, gpu_ret, tpc, block_boxes, dev_mask,
          writes, raceRead>>

cpuVars == <<i, selec, evaluated, cpu_ret>>
gpuVars == <<mask, selection, gpu_ret>>
kernelVars == <<tpc, block_boxes, dev_mask, writes, raceRead>>
inputVars == <<bbox, thresh, score, argsort, limit>>

----------------------------------------------------------------------------
\* Helpers

Min(a, b) == IF a < b THEN a ELSE b
Max(a, b) == IF a > b THEN a ELSE b
Len0(f) == Cardinality(DOMAIN f)
TheOne(S) == CHOOSE x \in S : TRUE
Pending == [status |-> "pending", val |-> <<>>]
EmptyArr == [k \in {} |-> 0]

RECURSIVE Asc(_)
\* The elements of a finite set of integers in ascending order.
Asc(S) ==
    IF S = {} THEN <<>>
    ELSE LET m == CHOOSE x \in S : \A y \in S : x <= y
         IN  <<m>> \o Asc(S \ {m})

Take(s, n) == SubSeq(s, 1, Min(n, Len(s)))

\* x / y >= t in IEEE arithmetic, for x >= 0 and t = <<num, den>>, den > 0:
\* x / 0 is +inf for x > 0 and NaN for x = 0, and NaN >= t is false.
FloatDivGe(x, y, t) ==
    IF y > 0 THEN x * t[2] >= t[1] * y
    ELSE IF y < 0 THEN x * t[2] <= t[1] * y
    ELSE x > 0

----------------------------------------------------------------------------
\* Score order (both strategies): score.argsort()[::-1]

\* The permutations score.argsort() may return: the indices in ascending
\* score.  The default sort kind of argsort is not stable, so the order of
\* equal scores is not fixed.
Argsorts(sc) ==
    { p \in [DOMAIN sc -> DOMAIN sc] :
        /\ \A a, b \in DOMAIN sc : a # b => p[a] # p[b]
        /\ \A a, b \in DOMAIN sc : a < b => sc[p[a]] <= sc[p[b]] }

\* Mutant of Reversed: the reversal [::-1] is left out.
Reversed_Missing(asc) == asc

\* asc[::-1]
Reversed(asc) == [k \in DOMAIN asc |-> asc[Len0(asc) - 1 - k]]

\* bbox[order]: the rows of bb named by ord
Gather(bb, ord) == [k \in DOMAIN ord |-> bb[ord[k]]]

\* order[selec] for an index array selec (a sequence here)
MapBack(ord, sel) == [k \in 1..Len(sel) |-> ord[sel[k]]]

----------------------------------------------------------------------------
\* _non_maximum_suppression_cpu

\* bbox_area: the areas of the boxes in the order of the argument bbox
BboxArea(bb) ==
    [k \in DOMAIN bb |-> (bb[k][3] - bb[k][1]) * (bb[k][4] - bb[k][2])]

\* order of the sequential selector (only computed when score is given)
CpuOrder(sc, asc) == Reversed(asc)

\* bbox after "if score is not None: bbox = bbox[order]"
CpuBbox(bb, sc, asc) ==
    IF sc = {} THEN bb ELSE Gather(bb, CpuOrder(sc, asc))

\* bbox[order] raises IndexError when order names a row that is not there
CpuGatherFails(bb, sc, asc) ==
    sc # {} /\ \E k \in DOMAIN asc : asc[k] \notin DOMAIN bb

Selected(sel) == { s \in DOMAIN sel : sel[s] }

\* area of one selected row: prod(rb - lt) * (lt < rb).all()
InterArea(b, c) ==
    LET lt1 == Max(b[1], c[1])
        lt2 == Max(b[2], c[2])
        rb1 == Min(b[3], c[3])
        rb2 == Min(b[4], c[4])
    IN  IF lt1 < rb1 /\ lt2 < rb2 THEN (rb1 - lt1) * (rb2 - lt2) ELSE 0

\* (jaccard >= thresh).any() for candidate row k of the reordered boxes sb,
\* with the areas taken from bbox_area at k and at the selected positions
Suppressed(area, sb, sel, k, t) ==
    \E s \in Selected(sel) :
        LET a == InterArea(sb[k], sb[s])
        IN  FloatDivGe(a, area[k] + area[s] - a, t)

\* Mutant of LimitReached: > in place of >=.
LimitReached_Strict(sel, lim) ==
    lim # {} /\ Cardinality(Selected(sel)) > TheOne(lim)

\* limit is not None and np.count_nonzero(selec) >= limit
LimitReached(sel, lim) ==
    lim # {} /\ Cardinality(Selected(sel)) >= TheOne(lim)

\* One iteration of "for i, b in enumerate(bbox)".  brk: the loop was left
\* by break.
CpuStep(area, sb, t, lim, st) ==
    IF Suppressed(area, sb, st.selec, st.i, t)
    THEN [i |-> st.i + 1, selec |-> st.selec,
          evaluated |-> st.evaluated \cup {st.i}, brk |-> FALSE]
    ELSE LET sel2 == [st.selec EXCEPT ![st.i] = TRUE]
         IN  [i |-> st.i + 1, selec |-> sel2,
              evaluated |-> st.evaluated \cup {st.i},
              brk |-> LimitReached(sel2, lim)]

CpuLoopOver(sb, st) == st.brk \/ st.i >= Len0(sb)

RECURSIVE CpuLoop(_, _, _, _, _)
CpuLoop(area, sb, t, lim, st) ==
    IF CpuLoopOver(sb, st) THEN st
    ELSE CpuLoop(area, sb, t, lim, CpuStep(area, sb, t, lim, st))

CpuStart(sb) ==
    [i |-> 0, selec |-> [k \in DOMAIN sb |-> FALSE], evaluated |-> {},
     brk |-> FALSE]

\* Mutant of CpuOutput: the positions are not mapped back through order.
CpuOutput_NoMapBack(sc, asc, sel) == Asc(Selected(sel))

\* selec = np.where(selec)[0]; if score is not None: selec = order[selec]
CpuOutput(sc, asc, sel) ==
    IF sc = {} THEN Asc(Selected(sel))
    ELSE MapBack(CpuOrder(sc, asc), Asc(Selected(sel)))

\* The whole function, for a score of the length of bb.
CpuResult(bb, t, sc, asc, lim) ==
    IF Len0(bb) = 0 THEN <<>>
    ELSE LET sb == CpuBbox(bb, sc, asc)
         IN  CpuOutput(sc, asc,
                       CpuLoop(BboxArea(bb), sb, t, lim, CpuStart(sb)).selec)

CpuBegin ==
    /\ pc = "cpu_call"
    /\ IF Len0(bbox) = 0
       THEN /\ cpu_ret' = [status |-> "ok", val |-> <<>>]
            /\ pc' = "gpu_call"
            /\ UNCHANGED <<i, selec, evaluated>>
       ELSE IF CpuGatherFails(bbox, score, argsort)
       THEN /\ cpu_ret' = [status |-> "IndexError", val |-> <<>>]
            /\ pc' = "gpu_call"
            /\ UNCHANGED <<i, selec, evaluated>>
       ELSE LET st == CpuStart(CpuBbox(bbox, score, argsort))
            IN  /\ i' = st.i
                /\ selec' = st.selec
                /\ evaluated' = st.evaluated
                /\ pc' = IF CpuLoopOver(CpuBbox(bbox, score, argsort), st)
                         THEN "cpu_ret" ELSE "cpu_loop"
                /\ UNCHANGED cpu_ret
    /\ UNCHANGED <<inputVars, gpuVars, kernelVars>>

\* bbox_area[selec] with a boolean selec whose length is not that of
\* bbox_area: an IndexError since numpy 1.13, the positions of the True
\* entries before.
CpuIter ==
    /\ pc = "cpu_loop"
    /\ LET sb == CpuBbox(bbox, score, argsort)
           area == BboxArea(bbox)
           st == CpuStep(area, sb, thresh, limit,
                         [i |-> i, selec |-> selec, evaluated |-> evaluated,
                          brk |-> FALSE])
       IN  \/ /\ Len0(selec) # Len0(area)
              /\ cpu_ret' = [status |-> "IndexError", val |-> <<>>]
              /\ pc' = "gpu_call"
              /\ UNCHANGED <<i, selec, evaluated>>
           \/ /\ i' = st.i
              /\ selec' = st.selec
              /\ evaluated' = st.evaluated
              /\ pc' = IF CpuLoopOver(sb, st) THEN "cpu_ret" ELSE "cpu_loop"
              /\ UNCHANGED cpu_ret
    /\ UNCHANGED <<inputVars, gpuVars, kernelVars>>

CpuReturn ==
    /\ pc = "cpu_ret"
    /\ cpu_ret' = [status |-> "ok", val |-> CpuOutput(score, argsort, selec)]
    /\ pc' = "gpu_call"
    /\ UNCHANGED <<inputVars, i, selec, evaluated, gpuVars, kernelVars>>

----------------------------------------------------------------------------
\* nms_kernel: the bitmask builder

\* DIVUP(m, n)
DIVUP(m, n) == (m \div n) + (IF m % n > 0 THEN 1 ELSE 0)

\* col_blocks of _call_nms_kernel and of the kernel
ColBlocks(n) == DIVUP(n, TILE)

\* devIoU(a, b) >= thresh
DevIoUGe(a, b, t) ==
    LET left == Max(a[1], b[1])
        right == Min(a[3], b[3])
        top == Max(a[2], b[2])
        bottom == Min(a[4], b[4])
        width == Max(right - left, 0)
        height == Max(bottom - top, 0)
        interS == width * height
        Sa == (a[3] - a[1]) * (a[4] - a[2])
        Sb == (b[3] - b[1]) * (b[4] - b[2])
    IN  FloatDivGe(interS, Sa + Sb - interS, t)

\* A thread is <<blockIdx.y, blockIdx.x, threadIdx.x>>.
RowStart(th) == th[1]
ColStart(th) == th[2]
Tid(th) == th[3]
Block(th) == <<th[1], th[2]>>

\* The grid blocks = (col_blocks, col_blocks, 1) of threads = (TILE, 1, 1)
Threads(n) ==
    (0..(ColBlocks(n) - 1)) \X (0..(ColBlocks(n) - 1)) \X (0..(TILE - 1))

RowSize(n, th) == Min(n - RowStart(th) * TILE, TILE)
ColSize(n, th) == Min(n - ColStart(th) * TILE, TILE)

\* A slot of block_boxes no thread has written yet.
Uninit == <<>>

\* threadIdx.x < col_size: the thread stages a box of the column tile
Stages(n, th) == Tid(th) < ColSize(n, th)

\* the box the thread stages: dev_bbox[threadsPerBlock * col_start + tid]
StagedBox(sb, th) == sb[TILE * ColStart(th) + Tid(th)]

\* threadIdx.x < row_size: the thread computes and writes a mask word
Computes(n, th) == Tid(th) < RowSize(n, th)

CurBoxIdx(th) == TILE * RowStart(th) + Tid(th)

\* Mutant of LoopStart: the diagonal tile starts at the thread's own box.
LoopStart_OwnBox(th) == IF RowStart(th) = ColStart(th) THEN Tid(th) ELSE 0

\* start of the inner loop
LoopStart(th) == IF RowStart(th) = ColStart(th) THEN Tid(th) + 1 ELSE 0

\* the slots the inner loop reads
SlotsRead(n, th) == LoopStart(th)..(ColSize(n, th) - 1)

\* t after the inner loop, with the staging area holding shared
ThreadWord(sb, n, t, th, shared) ==
    { k \in SlotsRead(n, th) : DevIoUGe(sb[CurBoxIdx(th)], shared[k], t) }

\* index of the word the thread writes
WordIdx(n, th) == CurBoxIdx(th) * ColBlocks(n) + ColStart(th)

\* Mutant of BarrierPassed: no barrier.
BarrierPassed_None(tp, th) == TRUE

\* __syncthreads(): every thread of the block has arrived
BarrierPassed(tp, th) ==
    \A o \in DOMAIN tp : Block(o) = Block(th) => tp[o] # "load"

\* mask_dev = cupy.zeros((n_bbox * col_blocks,))
ZeroMask(n) == [w \in 0..(n * ColBlocks(n) - 1) |-> {}]

\* The staging area of a block once all its threads have passed the barrier.
Staged(sb, n, th) ==
    [k \in 0..(TILE - 1) |->
        IF k < ColSize(n, th) THEN sb[TILE * ColStart(th) + k] ELSE Uninit]

RECURSIVE KernelWrites(_, _, _, _, _)
\* mask_dev after the threads of ths have run to completion one by one
KernelWrites(sb, n, t, ths, m) ==
    IF ths = {} THEN m
    ELSE LET th == CHOOSE x \in ths : TRUE
             m2 == IF Computes(n, th)
                   THEN [m EXCEPT ![WordIdx(n, th)] =
                            ThreadWord(sb, n, t, th, Staged(sb, n, th))]
                   ELSE m
         IN  KernelWrites(sb, n, t, ths \ {th}, m2)

\* mask_host of _call_nms_kernel
KernelMask(sb, n, t) == KernelWrites(sb, n, t, Threads(n), ZeroMask(n))

\* Phase 1 of a thread: stage a box of the column tile, arrive at the barrier.
ThreadLoad(th) ==
    /\ pc = "kernel_run"
    /\ tpc[th] = "load"
    /\ block_boxes' =
         IF Stages(Len0(bbox), th)
         THEN [block_boxes EXCEPT ![Block(th)][Tid(th)] = StagedBox(bbox, th)]
         ELSE block_boxes
    /\ tpc' = [tpc EXCEPT ![th] = "sync"]
    /\ UNCHANGED <<inputVars, pc, cpuVars, gpuVars, dev_mask, writes,
                   raceRead>>

\* Phase 2 of a thread, after the barrier: the inner loop and the write of
\* the mask word.  A slot read before it was staged holds any value.
ThreadCompute(th) ==
    /\ pc = "kernel_run"
    /\ tpc[th] = "sync"
    /\ BarrierPassed(tpc, th)
    /\ tpc' = [tpc EXCEPT ![th] = "done"]
    /\ IF Computes(Len0(bbox), th)
       THEN LET n == Len0(bbox)
                stale == { k \in SlotsRead(n, th) :
                             block_boxes[Block(th)][k] = Uninit }
            IN  \E fill \in [stale -> BoxSet] :
                  LET shared == [k \in 0..(TILE - 1) |->
                                   IF k \in stale THEN fill[k]
                                   ELSE block_boxes[Block(th)][k]]
                  IN  /\ dev_mask' =
                           [dev_mask EXCEPT ![WordIdx(n, th)] =
                              ThreadWord(bbox, n, thresh, th, shared)]
                      /\ writes' = [writes EXCEPT ![WordIdx(n, th)] =
                                      Append(@, th)]
                      /\ raceRead' = (raceRead \/ stale # {})
       ELSE UNCHANGED <<dev_mask, writes, raceRead>>
    /\ UNCHANGED <<inputVars, pc, cpuVars, gpuVars, block_boxes>>

KernelDone == \A th \in DOMAIN tpc : tpc[th] = "done"

----------------------------------------------------------------------------
\* _nms_gpu_post: the mask reducer

AllOnes == 0..(TILE - 1)

RECURSIVE PostLoop(_, _, _, _, _, _, _)
\* the scan of the boxes k = 0 .. n-1 in priority order
PostLoop(m, n, cb, k, remaining, sel, cnt) ==
    IF k >= n THEN [sel |-> sel, n |-> cnt]
    ELSE IF (k % TILE) \notin remaining[k \div TILE]
    THEN PostLoop(m, n, cb, k + 1, remaining, sel, cnt)
    ELSE PostLoop(m, n, cb, k + 1,
                  [j \in 0..(cb - 1) |-> remaining[j] \ m[k * cb + j]],
                  [sel EXCEPT ![cnt] = k], cnt + 1)

NmsGpuPostResult(m, n, cb) ==
    PostLoop(m, n, cb, 0, [j \in 0..(cb - 1) |-> AllOnes],
             [k \in 0..(n - 1) |-> 0], 0)

----------------------------------------------------------------------------
\* _non_maximum_suppression_gpu and _call_nms_kernel

\* order: the reversed argsort of score, or arange(n_bbox)
GpuOrder(bb, sc, asc) ==
    IF sc # {} THEN Reversed(asc) ELSE [k \in DOMAIN bb |-> k]

\* sorted_bbox = bbox[order, :]
SortedBbox(bb, sc, asc) == Gather(bb, GpuOrder(bb, sc, asc))

\* selec[:n_selec]
Prefix0(sel, n) == [k \in 1..n |-> sel[k - 1]]

\* selec = selec[:limit]
Truncate(sel, lim) == IF lim # {} THEN Take(sel, TheOne(lim)) ELSE sel

\* the lines after _call_nms_kernel
GpuOutput(bb, sc, asc, lim, post) ==
    Truncate(MapBack(GpuOrder(bb, sc, asc), Prefix0(post.sel, post.n)), lim)

\* The whole function.
GpuResult(bb, t, sc, asc, lim) ==
    IF Len0(bb) = 0 THEN <<>>
    ELSE LET n == Len0(bb)
         IN  GpuOutput(bb, sc, asc, lim,
                 NmsGpuPostResult(KernelMask(SortedBbox(bb, sc, asc), n, t),
                                  n, ColBlocks(n)))

GpuBegin ==
    /\ pc = "gpu_call"
    /\ cpu_ret.status = "ok"
    /\ IF Len0(bbox) = 0
       THEN /\ gpu_ret' = [status |-> "ok", val |-> <<>>]
            /\ pc' = "done"
       ELSE /\ pc' = "kernel"
            /\ UNCHANGED gpu_ret
    /\ UNCHANGED <<inputVars, cpuVars, mask, selection, kernelVars>>

\* kern(blocks, threads, ...); mask_host = mask_dev.get()
CallNmsKernel ==
    /\ pc = "kernel"
    /\ mask' = KernelMask(SortedBbox(bbox, score, argsort), Len0(bbox), thresh)
    /\ pc' = "post"
    /\ UNCHANGED <<inputVars, cpuVars, selection, gpu_ret, kernelVars>>

NmsGpuPost ==
    /\ pc = "post"
    /\ selection' = NmsGpuPostResult(mask, Len0(bbox), ColBlocks(Len0(bbox)))
    /\ pc' = "gpu_ret"
    /\ UNCHANGED <<inputVars, cpuVars, mask, gpu_ret, kernelVars>>

GpuReturn ==
    /\ pc = "gpu_ret"
    /\ gpu_ret' = [status |-> "ok",
                   val |-> GpuOutput(bbox, score, argsort, limit, selection)]
    /\ pc' = "done"
    /\ UNCHANGED <<inputVars, cpuVars, mask, selection, kernelVars>>

----------------------------------------------------------------------------
\* Specifications

Arrays(n, S) == [0..(n - 1) -> S]
Optional(S) == {{}} \cup { {x} : x \in S }

NoKernel ==
    /\ tpc = EmptyArr
    /\ block_boxes = EmptyArr
    /\ dev_mask = EmptyArr
    /\ writes = EmptyArr
    /\ raceRead = FALSE

CallState ==
    /\ pc = "cpu_call"
    /\ i = 0
    /\ selec = EmptyArr
    /\ evaluated = {}
    /\ cpu_ret = Pending
    /\ mask = EmptyArr
    /\ selection = [sel |-> EmptyArr, n |-> 0]
    /\ gpu_ret = Pending

\* A call with score absent or of the length of bbox.
InitCall ==
    \E n \in 0..MaxR :
        /\ bbox \in Arrays(n, BoxSet)
        /\ thresh \in ThreshSet
        /\ score \in Optional(Arrays(n, ScoreSet))
        /\ argsort \in (IF score = {} THEN {EmptyArr}
                        ELSE Argsorts(TheOne(score)))
        /\ limit \in Optional(LimitSet)

\* The call of the documented scenario, with and without its scores.
InitExample ==
    /\ bbox = ExampleBbox
    /\ thresh = <<1, 2>>
    /\ score \in {{}, {ExampleScore}}
    /\ argsort \in (IF score = {} THEN {EmptyArr}
                    ELSE Argsorts(TheOne(score)))
    /\ limit \in {{}, {1}}

\* A call whose scores are pairwise distinct: the priority order does not
\* depend on how argsort orders equal scores.
InitDistinct ==
    /\ \E n \in 1..MaxR :
        /\ bbox \in Arrays(n, BoxSet)
        /\ score \in { {x} : x \in { y \in Arrays(n, 1..n) :
                          \A a, b \in 0..(n - 1) : a # b => y[a] # y[b] } }
    /\ thresh \in ThreshSet
    /\ argsort \in Argsorts(TheOne(score))
    /\ limit \in Optional(LimitSet)
    /\ CallState
    /\ NoKernel

Init == (InitCall \/ InitExample) /\ CallState /\ NoKernel

Next ==
    \/ CpuBegin
    \/ CpuIter
    \/ CpuReturn
    \/ GpuBegin
    \/ CallNmsKernel
    \/ NmsGpuPost
    \/ GpuReturn

Spec == Init /\ [][Next]_vars

SpecDistinct == InitDistinct /\ [][Next]_vars

\* A call on at least one box whose score has another length than bbox
\* (sequential strategy).
InitShape ==
    /\ \E n \in 1..MaxR, m \in 0..(MaxR + 1) :
        /\ n # m
        /\ bbox \in Arrays(n, BoxSet)
        /\ score \in { {x} : x \in Arrays(m, ScoreSet) }
    /\ thresh \in ThreshSet
    /\ argsort \in Argsorts(TheOne(score))
    /\ limit \in Optional(LimitSet)
    /\ CallState
    /\ NoKernel

NextShape == CpuBegin \/ CpuIter \/ CpuReturn

SpecShape == InitShape /\ [][NextShape]_vars

\* One launch of nms_kernel on n_bbox boxes, its threads interleaved.  With
\* two boxes and threshold 1 a pair of boxes reaches the threshold exactly
\* when the two are the same box, so every pattern of equal and unequal
\* boxes is covered with the first box fixed.
KernelBoxSet == { <<0, 0, 2, 2>>, <<0, 0, 1, 2>> }

InitKernel ==
    /\ \E n \in 1..MaxR : bbox \in Arrays(n, KernelBoxSet)
    /\ bbox[0] = <<0, 0, 2, 2>>
    /\ thresh = <<1, 1>>
    /\ score = {}
    /\ argsort = EmptyArr
    /\ limit = {}
    /\ pc = "kernel_run"
    /\ i = 0
    /\ selec = EmptyArr
    /\ evaluated = {}
    /\ cpu_ret = Pending
    /\ mask = EmptyArr
    /\ selection = [sel |-> EmptyArr, n |-> 0]
    /\ gpu_ret = Pending
    /\ tpc = [th \in Threads(Len0(bbox)) |-> "load"]
    /\ block_boxes = [b \in (0..(ColBlocks(Len0(bbox)) - 1))
                              \X (0..(ColBlocks(Len0(bbox)) - 1)) |->
                        [k \in 0..(TILE - 1) |-> Uninit]]
    /\ dev_mask = ZeroMask(Len0(bbox))
    /\ writes = [w \in DOMAIN dev_mask |-> <<>>]
    /\ raceRead = FALSE

NextKernel ==
    \E th \in DOMAIN tpc : ThreadLoad(th) \/ ThreadCompute(th)

SpecKernel == InitKernel /\ [][NextKernel]_vars

----------------------------------------------------------------------------
\* Properties

Range(s) == { s[k] : k \in 1..Len(s) }
PosIn(ord, x) == CHOOSE k \in DOMAIN ord : ord[k] = x
IsPrefix(s, u) == Len(s) <= Len(u) /\ \A k \in 1..Len(s) : s[k] = u[k]
NoDuplicates(s) == \A p, q \in 1..Len(s) : p # q => s[p] # s[q]

Area(a) == (a[3] - a[1]) * (a[4] - a[2])
OverlapLen(lo1, hi1, lo2, hi2) == Max(0, Min(hi1, hi2) - Max(lo1, lo2))
Intersection(a, b) ==
    OverlapLen(a[1], a[3], b[1], b[3]) * OverlapLen(a[2], a[4], b[2], b[4])

\* IoU(a, b) >= t for boxes of positive area, from their real areas
IoUGe(a, b, t) ==
    Intersection(a, b) * t[2]
        >= t[1] * (Area(a) + Area(b) - Intersection(a, b))

\* The priority order of the call: position 0 is the highest priority.
Priority == IF score = {} THEN [k \in DOMAIN bbox |-> k] ELSE Reversed(argsort)
Higher(a, b) == PosIn(Priority, a) < PosIn(Priority, b)

\* The sequential strategy has just returned; both strategies have returned.
CpuDone == pc = "gpu_call" /\ cpu_ret.status = "ok"
GpuDone == pc = "done" /\ gpu_ret.status = "ok"
BothDone == pc = "done" /\ cpu_ret.status = "ok" /\ gpu_ret.status = "ok"

NoOverlapIn(val) ==
    \A a, b \in Range(val) : a # b => ~IoUGe(bbox[a], bbox[b], thresh)

\* C1: no two distinct indices of the result of either strategy have
\* IoU >= threshold (IoU from the real areas of the two boxes).
C1_NoOverlapInResult ==
    /\ CpuDone => NoOverlapIn(cpu_ret.val)
    /\ GpuDone => NoOverlapIn(gpu_ret.val)

\* C2: the sequential and the parallel strategy return the same set of
\* original indices for the same boxes, threshold, scores and limit.
C2_SameIndexSet ==
    BothDone => Range(cpu_ret.val) = Range(gpu_ret.val)

\* C3: with a limit given (0 included) the result of either strategy has
\* at most limit indices.
C3_AtMostLimit ==
    limit # {} =>
        /\ CpuDone => Len(cpu_ret.val) <= TheOne(limit)
        /\ GpuDone => Len(gpu_ret.val) <= TheOne(limit)

\* The loop position whose acceptance reached the limit.
LastAccepted == CHOOSE m \in Selected(selec) : \A s \in Selected(selec) : s <= m

\* C4: the result with a limit is a prefix of the result of the same call
\* without a limit, on both strategies, and the sequential selector neither
\* evaluates nor accepts a candidate after the one whose acceptance reached
\* the limit.
C4_LimitIsPrefix ==
    /\ CpuDone =>
         IsPrefix(cpu_ret.val, CpuResult(bbox, thresh, score, argsort, {}))
    /\ GpuDone =>
         IsPrefix(gpu_ret.val, GpuResult(bbox, thresh, score, argsort, {}))
    /\ (limit # {} /\ Selected(selec) # {}
          /\ Cardinality(Selected(selec)) >= TheOne(limit)) =>
         \A e \in evaluated : e <= LastAccepted

C4_Witness ==
    /\ BothDone
    /\ limit = {1}
    /\ score # {}
    /\ cpu_ret.val # <<>>
    /\ Len(cpu_ret.val) < Len(CpuResult(bbox, thresh, score, argsort, {}))
    /\ Len(gpu_ret.val) < Len(GpuResult(bbox, thresh, score, argsort, {}))
    /\ evaluated # DOMAIN selec

InPriorityOrder(val) ==
    /\ \A k \in 1..(Len(val) - 1) : Higher(val[k], val[k + 1])
    /\ score # {} =>
         \A k \in 1..(Len(val) - 1) :
            TheOne(score)[val[k]] >= TheOne(score)[val[k + 1]]
    /\ score = {} => \A k \in 1..(Len(val) - 1) : val[k] < val[k + 1]

WellFormedResult(val) ==
    /\ Range(val) \subseteq DOMAIN bbox
    /\ NoDuplicates(val)
    /\ InPriorityOrder(val)
    /\ (bbox = ExampleBbox /\ score = {ExampleScore} /\ limit = {})
          => val = <<1, 2>>

\* C5: the result is a sequence of indices into the original boxes, each at
\* most once, in descending priority (descending score, or ascending index
\* without scores); the documented scenario with scores gives [1, 2].
C5_IndicesInPriorityOrder ==
    /\ CpuDone => WellFormedResult(cpu_ret.val)
    /\ GpuDone => WellFormedResult(gpu_ret.val)

C5_Witness ==
    /\ BothDone
    /\ bbox = ExampleBbox /\ score = {ExampleScore} /\ limit = {}
    /\ cpu_ret.val = <<1, 2>>
    /\ gpu_ret.val = <<1, 2>>

\* C6: a call whose score has another length than bbox ends in an explicit
\* error and returns no index list.
C6_MismatchIsError ==
    (score # {} /\ Len0(TheOne(score)) # Len0(bbox)) => cpu_ret.status # "ok"

\* C7: of two boxes of equal score the one of lower original index has the
\* higher priority, and is the one selected when the two overlap at or
\* above the threshold.
C7_TiesKeepOriginalOrder ==
    (score # {} /\ CpuDone /\ limit = {}) =>
        \A a, b \in DOMAIN bbox :
            (a < b /\ TheOne(score)[a] = TheOne(score)[b]) =>
                /\ PosIn(CpuOrder(score, argsort), a)
                      < PosIn(CpuOrder(score, argsort), b)
                /\ IoUGe(bbox[a], bbox[b], thresh)
                     => ~(b \in Range(cpu_ret.val) /\ a \notin Range(cpu_ret.val))

IsPriorityOrder(ord) ==
    /\ DOMAIN ord = DOMAIN bbox
    /\ \A a \in DOMAIN bbox : \E k \in DOMAIN ord : ord[k] = a
    /\ \A k, l \in DOMAIN ord :
          k < l => TheOne(score)[ord[k]] >= TheOne(score)[ord[l]]
    /\ \A a, b \in DOMAIN bbox :
          PosIn(ord, a) < PosIn(ord, b) <=> PosIn(argsort, a) > PosIn(argsort, b)

\* C7 (amended): the priority order computed from scores is the reverse of
\* what argsort returns: a permutation of the indices in non-increasing
\* score, equal scores in the reverse of the order argsort gave them.
C7_OrderIsReversedArgsort ==
    score # {} =>
        /\ pc = "cpu_ret" => IsPriorityOrder(CpuOrder(score, argsort))
        /\ pc = "kernel" => IsPriorityOrder(GpuOrder(bbox, score, argsort))

C7_Witness ==
    /\ BothDone /\ limit = {}
    /\ score # {}
    /\ \E a, b \in DOMAIN bbox :
          /\ a < b
          /\ TheOne(score)[a] = TheOne(score)[b]
          /\ IoUGe(bbox[a], bbox[b], thresh)
          /\ PosIn(CpuOrder(score, argsort), b)
                < PosIn(CpuOrder(score, argsort), a)
          /\ b \in Range(cpu_ret.val) /\ a \notin Range(cpu_ret.val)
          /\ b \in Range(gpu_ret.val) /\ a \notin Range(gpu_ret.val)

\* C8: in the sequential selector without a limit every box absent from the
\* result has a higher-priority box in the result with IoU >= threshold; the
\* highest-priority box is selected.
C8_RejectedOnlyByOverlap ==
    (CpuDone /\ limit = {} /\ Len0(bbox) > 0) =>
        /\ Priority[0] \in Range(cpu_ret.val)
        /\ \A a \in DOMAIN bbox \ Range(cpu_ret.val) :
              \E b \in Range(cpu_ret.val) :
                 Higher(b, a) /\ IoUGe(bbox[b], bbox[a], thresh)

\* C9: after the bitmask builder, bit k of mask word (r, t) is set if and
\* only if c = t*TILE + k < R, IoU(box_r, box_c) >= threshold, and r and c
\* are in different tiles or c > r.
C9_MaskBits ==
    pc = "post" =>
        LET n == Len0(bbox)
            cb == ColBlocks(n)
            sb == SortedBbox(bbox, score, argsort)
        IN  /\ DOMAIN mask = 0..(n * cb - 1)
            /\ \A r \in 0..(n - 1), t \in 0..(cb - 1), k \in 0..(TILE - 1) :
                  (k \in mask[r * cb + t]) <=>
                     LET c == t * TILE + k
                     IN  /\ c < n
                         /\ IoUGe(sb[r], sb[c], thresh)
                         /\ (r \div TILE # t \/ c > r)
            /\ \A w \in DOMAIN mask : mask[w] \subseteq 0..(TILE - 1)

C9_Witness ==
    /\ pc = "post"
    /\ score # {}
    /\ LET n == Len0(bbox)
           cb == ColBlocks(n)
           sb == SortedBbox(bbox, score, argsort)
       IN  /\ cb > 1
           /\ \E r, c \in 0..(n - 1) :
                 /\ c < r /\ c \div TILE # r \div TILE
                 /\ (c % TILE) \in mask[r * cb + (c \div TILE)]
           /\ \E r, c \in 0..(n - 1) :
                 /\ c < r /\ c \div TILE = r \div TILE
                 /\ IoUGe(sb[r], sb[c], thresh)
                 /\ (c % TILE) \notin mask[r * cb + (c \div TILE)]
                 /\ (r % TILE) \in mask[c * cb + (r \div TILE)]

\* C10: in every interleaving of the threads of the bitmask builder no mask
\* word is written twice, no thread reads a staged box before it is
\* written, and on completion every word was written exactly once and the
\* mask is the one the inputs determine.
C10_DisjointWritesNoRace ==
    /\ \A w \in DOMAIN writes : Len(writes[w]) <= 1
    /\ ~raceRead
    /\ KernelDone =>
         /\ \A w \in DOMAIN writes : Len(writes[w]) = 1
         /\ dev_mask = KernelMask(bbox, Len0(bbox), thresh)

C10_Witness ==
    /\ KernelDone
    /\ ColBlocks(Len0(bbox)) > 1
    /\ \A w \in DOMAIN writes : Len(writes[w]) = 1
    /\ \E w \in DOMAIN dev_mask : dev_mask[w] # {}
    /\ \E w \in DOMAIN dev_mask : dev_mask[w] = {}

====
